---- MODULE Spec2Model ----
(***************************************************************************)
(* A model of the DHCP options decoder: the top-level option loop of       *)
(* options/parse.rs and the nested Relay Agent Information (option 82)     *)
(* sub-option loop of options/option82.rs.                                 *)
(*                                                                         *)
(* A byte slice is a sequence of numbers 0..255 (TLA+ sequences are        *)
(* 1-based: Rust's unparsed[0] is unparsed[1] here).  A nom parser result  *)
(* is a record [st, rest, o]: st is "Done", "Error" or "Incomplete"; rest  *)
(* is the input left after the last primitive that succeeded; o is the     *)
(* value of a Done result.  A u32 is kept as the pair <<high 16 bits, low  *)
(* 16 bits>> so that no number of the model exceeds 31 bits.               *)
(***************************************************************************)
EXTENDS Integers, Sequences, FiniteSets, TLC

\* ------------------------------------------------------------------------
\* Bounds of the model
\* ------------------------------------------------------------------------
MaxLen == 4

MaxSubLen == 5

\* ------------------------------------------------------------------------
\* Slices
\* ------------------------------------------------------------------------
Drop(s, k) == SubSeq(s, k + 1, Len(s))

Take(s, k) == SubSeq(s, 1, k)

\* ------------------------------------------------------------------------
\* nom primitives as the decoders use them
\* ------------------------------------------------------------------------
Done(rest, o) == [st |-> "Done", rest |-> rest, o |-> o]

Fail(st, rest) == [st |-> st, rest |-> rest, o |-> <<>>]

\* tag!([t]): one byte that must equal t.
tag(i, t) ==
    IF Len(i) < 1 THEN Fail("Incomplete", i)
    ELSE IF i[1] = t THEN Done(Tail(i), t)
    ELSE Fail("Error", i)

be_u8(i) ==
    IF Len(i) < 1 THEN Fail("Incomplete", i) ELSE Done(Drop(i, 1), i[1])

be_u16(i) ==
    IF Len(i) < 2 THEN Fail("Incomplete", i)
    ELSE Done(Drop(i, 2), i[1] * 256 + i[2])

\* be_u32 reading the least significant byte first.
be_u32_le(i) ==
    IF Len(i) < 4 THEN Fail("Incomplete", i)
    ELSE Done(Drop(i, 4), <<i[4] * 256 + i[3], i[2] * 256 + i[1]>>)

\* A u32 as <<high half, low half>>.
be_u32(i) ==
    IF Len(i) < 4 THEN Fail("Incomplete", i)
    ELSE Done(Drop(i, 4), <<i[1] * 256 + i[2], i[3] * 256 + i[4]>>)

\* Two's complement: a high half of 32768 or more is negative.
be_i32(i) ==
    IF Len(i) < 4 THEN Fail("Incomplete", i)
    ELSE LET hi == i[1] * 256 + i[2]
             lo == i[3] * 256 + i[4]
         IN  Done(Drop(i, 4),
                  IF hi >= 32768 THEN (hi - 65536) * 65536 + lo
                  ELSE hi * 65536 + lo)

\* sized_buffer taking every byte after the length byte.
sized_buffer_to_end(i) ==
    IF Len(i) < 1 THEN Fail("Incomplete", i)
    ELSE IF Len(i) < 1 + i[1] THEN Fail("Incomplete", i)
    ELSE Done(<<>>, Drop(i, 1))

\* sized_buffer: a length byte, then that many bytes.
sized_buffer(i) ==
    IF Len(i) < 1 THEN Fail("Incomplete", i)
    ELSE IF Len(i) < 1 + i[1] THEN Fail("Incomplete", i)
    ELSE Done(Drop(i, 1 + i[1]), SubSeq(i, 2, 1 + i[1]))

\* The element parser of a count!: be_u8, be_u16 or be_u32 by its width.
element(i, width) ==
    IF width = 1 THEN be_u8(i) ELSE IF width = 2 THEN be_u16(i) ELSE be_u32(i)

\* count!(i, element, n): the element parser applied n times, the values
\* collected in order.
RECURSIVE count(_, _, _, _)
count(i, width, n, acc) ==
    IF n = 0 THEN Done(i, acc)
    ELSE LET r == element(i, width)
         IN  IF r.st # "Done" THEN Fail(r.st, i)
             ELSE count(r.rest, width, n - 1, Append(acc, r.o))

\* length_count!(L, element), given the result l of the count parser L.
length_count(l, width) ==
    IF l.st # "Done" THEN l ELSE count(l.rest, width, l.o, <<>>)

\* ------------------------------------------------------------------------
\* str::from_utf8: TRUE iff the bytes are well-formed UTF-8
\* ------------------------------------------------------------------------
IsCont(s, k) == k <= Len(s) /\ s[k] >= 128 /\ s[k] <= 191

InRange(s, k, lo, hi) == k <= Len(s) /\ s[k] >= lo /\ s[k] <= hi

RECURSIVE from_utf8(_)
from_utf8(s) ==
    IF Len(s) = 0 THEN TRUE
    ELSE LET b == s[1]
         IN  IF b < 128 THEN from_utf8(Drop(s, 1))
             ELSE IF b >= 194 /\ b <= 223
                  THEN IsCont(s, 2) /\ from_utf8(Drop(s, 2))
             ELSE IF b = 224
                  THEN InRange(s, 2, 160, 191) /\ IsCont(s, 3) /\ from_utf8(Drop(s, 3))
             ELSE IF (b >= 225 /\ b <= 236) \/ b = 238 \/ b = 239
                  THEN IsCont(s, 2) /\ IsCont(s, 3) /\ from_utf8(Drop(s, 3))
             ELSE IF b = 237
                  THEN InRange(s, 2, 128, 159) /\ IsCont(s, 3) /\ from_utf8(Drop(s, 3))
             ELSE IF b = 240
                  THEN InRange(s, 2, 144, 191) /\ IsCont(s, 3) /\ IsCont(s, 4)
                       /\ from_utf8(Drop(s, 4))
             ELSE IF b >= 241 /\ b <= 243
                  THEN IsCont(s, 2) /\ IsCont(s, 3) /\ IsCont(s, 4)
                       /\ from_utf8(Drop(s, 4))
             ELSE IF b = 244
                  THEN InRange(s, 2, 128, 143) /\ IsCont(s, 3) /\ IsCont(s, 4)
                       /\ from_utf8(Drop(s, 4))
             ELSE FALSE

\* ------------------------------------------------------------------------
\* Value conversions
\* ------------------------------------------------------------------------
\* Ipv4Addr::from(u32): the four octets, most significant first.
u32_to_ip(a) == <<a[1] \div 256, a[1] % 256, a[2] \div 256, a[2] % 256>>

many_ip_addrs(addrs) == [k \in 1..Len(addrs) |-> u32_to_ip(addrs[k])]

\* Even positions (0-based) are addresses, odd ones masks; zip stops at the
\* shorter list.
ip_addr_pairs(addrs) ==
    [k \in 1..(Len(addrs) \div 2) |->
        <<u32_to_ip(addrs[2 * k - 1]), u32_to_ip(addrs[2 * k])>>]

num_u16s(i) ==
    LET r == be_u8(i) IN IF r.st = "Done" THEN Done(r.rest, r.o \div 2) ELSE r

num_u32s(i) ==
    LET r == be_u8(i) IN IF r.st = "Done" THEN Done(r.rest, r.o \div 4) ELSE r

\* ------------------------------------------------------------------------
\* Decoder shapes of options/parse.rs.  Each takes the whole record (tag
\* byte first), the tag it answers to and the variant it builds.  An option
\* is the pair <<variant, value>>.
\* ------------------------------------------------------------------------
\* tag!([t]) then a length byte that is read and dropped: o is that byte.
tag_len(i, t) ==
    LET tg == tag(i, t)
        l == be_u8(tg.rest)
    IN  IF tg.st # "Done" THEN tg
        ELSE IF l.st # "Done" THEN Fail(l.st, tg.rest)
        ELSE l

\* The rest of a do_parse! after the header h: the value result v, and the
\* option o built from it.
value(h, v, o) ==
    IF h.st # "Done" THEN h
    ELSE IF v.st # "Done" THEN Fail(v.st, v.rest)
    ELSE Done(v.rest, o)

ip_pairs(i, t, variant) ==
    LET tg == tag(i, t)
        addrs == length_count(num_u32s(tg.rest), 4)
    IN  value(tg, addrs, <<variant, ip_addr_pairs(addrs.o)>>)

many_ips(i, t, variant) ==
    LET tg == tag(i, t)
        addrs == length_count(num_u32s(tg.rest), 4)
    IN  value(tg, addrs, <<variant, many_ip_addrs(addrs.o)>>)

\* length_specific_string without the str::from_utf8 of its map_res!.
length_specific_string_unchecked(i, t, variant) ==
    LET tg == tag(i, t)
        b == sized_buffer(tg.rest)
    IN  value(tg, b, <<variant, b.o>>)

\* tag, sized_buffer, str::from_utf8 on the buffer; the string is kept as
\* its bytes.
length_specific_string(i, t, variant) ==
    LET tg == tag(i, t)
        b == sized_buffer(tg.rest)
        s == IF b.st = "Done" /\ ~from_utf8(b.o) THEN Fail("Error", b.rest) ELSE b
    IN  value(tg, s, <<variant, s.o>>)

single_ip(i, t, variant) ==
    LET h == tag_len(i, t)
        addr == be_u32(h.rest)
    IN  value(h, addr, <<variant, u32_to_ip(addr.o)>>)

bool(i, t, variant) ==
    LET h == tag_len(i, t)
        val == be_u8(h.rest)
    IN  value(h, val, <<variant, val.o = 1>>)

scalar_u8(i, t, variant) ==
    LET h == tag_len(i, t)
        v == be_u8(h.rest)
    IN  value(h, v, <<variant, v.o>>)

scalar_u16(i, t, variant) ==
    LET h == tag_len(i, t)
        v == be_u16(h.rest)
    IN  value(h, v, <<variant, v.o>>)

scalar_u32(i, t, variant) ==
    LET h == tag_len(i, t)
        v == be_u32(h.rest)
    IN  value(h, v, <<variant, v.o>>)

scalar_i32(i, t, variant) ==
    LET h == tag_len(i, t)
        v == be_i32(h.rest)
    IN  value(h, v, <<variant, v.o>>)

u16_list(i, t, variant) ==
    LET tg == tag(i, t)
        sizes == length_count(num_u16s(tg.rest), 2)
    IN  value(tg, sizes, <<variant, sizes.o>>)

byte_list(i, t, variant) ==
    LET tg == tag(i, t)
        data_ == length_count(be_u8(tg.rest), 1)
    IN  value(tg, data_, <<variant, data_.o>>)

\* FromPrimitive::from_u8 of the enum behind each tag: the bytes that name a
\* member.  The enums are declared in options/mod.rs; tag 53 has the seven
\* message types of the wire tag table, tags 52 and 46 the values RFC 2132
\* gives to option overload and NetBIOS node type.
from_u8_table(t) ==
    CASE t = 53 -> {1, 2, 3, 4, 5, 6, 7}
      [] t = 52 -> {1, 2, 3}
      [] t = 46 -> {1, 2, 4, 8}
      [] OTHER -> {}

\* The members of DhcpMessageTypes by their byte, as the wire tag table and
\* test_option_053_dhcp_message_type name them.
DhcpMessageTypes(b) ==
    CASE b = 1 -> "Discover"
      [] b = 2 -> "Offer"
      [] b = 3 -> "Request"
      [] b = 4 -> "Decline"
      [] b = 5 -> "Ack"
      [] b = 6 -> "Nak"
      [] b = 7 -> "Release"

\* FromPrimitive::from_u8 on a byte of the table: the member it names.  The
\* members of the enums behind tags 46 and 52 are kept as their bytes.
from_u8(t, b) == IF t = 53 THEN DhcpMessageTypes(b) ELSE b

\* from_primitive looking its member up by the length byte.
from_primitive_of_length(i, t, variant) ==
    LET h == tag_len(i, t)
        b == be_u8(h.rest)
        d == IF b.st = "Done" /\ h.o \notin from_u8_table(t)
             THEN Fail("Error", b.rest) ELSE b
    IN  value(h, d, <<variant, from_u8(t, h.o)>>)

\* tag, a length byte that is dropped, then map_opt!(be_u8, from_u8).
from_primitive(i, t, variant) ==
    LET h == tag_len(i, t)
        b == be_u8(h.rest)
        d == IF b.st = "Done" /\ b.o \notin from_u8_table(t)
             THEN Fail("Error", b.rest) ELSE b
    IN  value(h, d, <<variant, from_u8(t, d.o)>>)

\* ------------------------------------------------------------------------
\* The sub-option catalog and the nested loop of options/option82.rs
\* ------------------------------------------------------------------------
\* alt! over the twelve sub-option parsers.  Each starts with tag!([t]) for
\* its own t, so at most the one whose tag is the first byte can go past
\* its tag: the alternation is a dispatch on that byte.
option_82_parser(i) ==
    IF Len(i) < 1 THEN Fail("Incomplete", i)
    ELSE LET t == i[1]
         IN  CASE t = 1 -> byte_list(i, t, "AgentCircuitID")
               [] t = 2 -> byte_list(i, t, "AgentRemoteID")
               [] t = 4 -> scalar_i32(i, t, "DOCSISDeviceClass")
               [] t = 5 -> single_ip(i, t, "LinkSelection")
               [] t = 6 -> length_specific_string(i, t, "SubscriberID")
               [] t = 7 -> byte_list(i, t, "RADIUSattributes")
               [] t = 8 -> byte_list(i, t, "Authentication")
               [] t = 9 -> byte_list(i, t, "VendorSpecificInformation")
               [] t = 10 -> scalar_u8(i, t, "RelayAgentFlags")
               [] t = 11 -> scalar_i32(i, t, "ServerIdentifierOverride")
               [] t = 151 -> byte_list(i, t, "DHCPv4VirtualSubnetSelection")
               [] t = 152 -> byte_list(i, t, "DHCPv4VirtualSubnetSelectionControl")
               [] OTHER -> Fail("Error", i)

\* The outcome of one pass through a loop body: some is FALSE when
\* remaining was set to None, idx is the set of 0-based indices of unparsed
\* the pass reads, and panic tells that one of them is out of bounds.
Pass(some, remaining, vec, idx, n) ==
    [some |-> some, remaining |-> remaining, vec |-> vec, idx |-> idx,
     panic |-> \E k \in idx : k >= n]

\* unparsed[k] (0-based); the value of an out-of-bounds read never matters
\* because the pass panics.
At(s, k) == IF k < Len(s) THEN s[k + 1] ELSE 0

\* The bytes a parser result r has consumed or examined of its input i: the
\* tag byte, and what the primitives that succeeded went through.
Examined(i, r) ==
    (0..(Len(i) - Len(r.rest) - 1)) \cup (IF Len(i) > 0 THEN {0} ELSE {})

\* option82.rs line 178: 2 + (unparsed[1] as usize), in usize.
option_length82(unparsed) == 2 + At(unparsed, 1)

\* option82.rs line 208.
start_of_next_option82(unparsed) == 2 + At(unparsed, 1)

\* sanity82 without its arm for 0, 1 or 2 remaining bytes (lines 168-172).
sanity82_no_short_arm(unparsed) ==
    [stop |-> option_length82(unparsed) > Len(unparsed), idx |-> {1}]

\* sanity82 without the bounds check of lines 181-184.
sanity82_no_bounds_check(unparsed) ==
    IF Len(unparsed) <= 2 THEN [stop |-> TRUE, idx |-> {}]
    ELSE [stop |-> FALSE, idx |-> {1}]

\* option82.rs lines 167-186: TRUE when the pass sets remaining = None and
\* continues.
sanity82(unparsed) ==
    IF Len(unparsed) <= 2 THEN [stop |-> TRUE, idx |-> {}]
    ELSE [stop |-> option_length82(unparsed) > Len(unparsed), idx |-> {1}]

\* after_option82 without the recovery of lines 204-215.
after_option82_no_recovery(unparsed, vec, r) ==
    LET n == Len(unparsed)
    IN  IF r.st = "Done"
        THEN Pass(~(Len(r.rest) < 3), r.rest, Append(vec, r.o),
                  Examined(unparsed, r), n)
        ELSE Pass(FALSE, <<>>, vec, Examined(unparsed, r), n)

\* option82.rs lines 189-216, given the result r of option_82_parser.
after_option82(unparsed, vec, r) ==
    LET n == Len(unparsed)
    IN  IF r.st = "Done"
        THEN Pass(~(Len(r.rest) < 3), r.rest, Append(vec, r.o),
                  Examined(unparsed, r), n)
        ELSE IF n > 2
        THEN LET start == start_of_next_option82(unparsed)
             IN  IF n > start
                 THEN Pass(TRUE, Drop(unparsed, start), vec,
                           Examined(unparsed, r) \cup {1}, n)
                 ELSE Pass(FALSE, <<>>, vec, Examined(unparsed, r) \cup {1}, n)
        ELSE Pass(FALSE, <<>>, vec, Examined(unparsed, r), n)

\* One pass of the while loop of option82.rs parse (lines 165-217).
iterate82(unparsed, vec) ==
    LET s == sanity82(unparsed)
        n == Len(unparsed)
    IN  IF s.stop \/ (\E k \in s.idx : k >= n)
        THEN Pass(FALSE, <<>>, vec, s.idx, n)
        ELSE LET p == after_option82(unparsed, vec, option_82_parser(unparsed))
             IN  [p EXCEPT !.idx = @ \cup s.idx]

\* option82.rs parse run to its end: [vec, panic].
RECURSIVE loop82(_, _)
loop82(unparsed, vec) ==
    LET p == iterate82(unparsed, vec)
    IN  IF p.panic THEN [vec |-> p.vec, panic |-> TRUE]
        ELSE IF ~p.some THEN [vec |-> p.vec, panic |-> FALSE]
        ELSE loop82(p.remaining, p.vec)

parse82(bytes82) ==
    IF Len(bytes82) > 0 THEN loop82(bytes82, <<>>)
    ELSE [vec |-> <<>>, panic |-> FALSE]

\* ------------------------------------------------------------------------
\* The top-level catalog and loop of options/parse.rs
\* ------------------------------------------------------------------------
SingleIpTags == {1, 16, 28, 32, 50, 54}

ManyIpsTags == (3..11) \cup {41, 42, 44, 45, 48, 49}

StringTags == {12, 14, 15, 17, 18, 40, 47, 56}

BoolTags == {19, 20, 27, 29, 30, 31, 34, 36, 39}

U8Tags == {23, 37}

U16Tags == {13, 22, 26, 57}

U32Tags == {24, 35, 38, 51}

EnumTags == {46, 52, 53}

ByteListTags == {43, 55}

\* The variant each tag builds.
Variant(t) ==
    CASE t = 1 -> "SubnetMask" [] t = 2 -> "TimeOffset" [] t = 3 -> "Router"
      [] t = 4 -> "TimeServer" [] t = 5 -> "NameServer"
      [] t = 6 -> "DomainNameServer" [] t = 7 -> "LogServer"
      [] t = 8 -> "CookieServer" [] t = 9 -> "LprServer"
      [] t = 10 -> "ImpressServer" [] t = 11 -> "ResourceLocationServer"
      [] t = 12 -> "HostName" [] t = 13 -> "BootFileSize"
      [] t = 14 -> "MeritDumpFile" [] t = 15 -> "DomainName"
      [] t = 16 -> "SwapServer" [] t = 17 -> "RootPath"
      [] t = 18 -> "ExtensionsPath" [] t = 19 -> "IPForwarding"
      [] t = 20 -> "NonLocalSourceRouting"
      [] t = 22 -> "MaxDatagramReassemblySize" [] t = 23 -> "DefaultIpTtl"
      [] t = 24 -> "PathMtuAgingTimeout" [] t = 25 -> "PathMtuPlateauTable"
      [] t = 26 -> "InterfaceMtu" [] t = 27 -> "AllSubnetsAreLocal"
      [] t = 28 -> "BroadcastAddress" [] t = 29 -> "PerformMaskDiscovery"
      [] t = 30 -> "MaskSupplier" [] t = 31 -> "PerformRouterDiscovery"
      [] t = 32 -> "RouterSolicitationAddress" [] t = 33 -> "StaticRoute"
      [] t = 34 -> "TrailerEncapsulation" [] t = 35 -> "ArpCacheTimeout"
      [] t = 36 -> "EthernetEncapsulation" [] t = 37 -> "TcpDefaultTtl"
      [] t = 38 -> "TcpKeepaliveInterval" [] t = 39 -> "TcpKeepaliveGarbage"
      [] t = 40 -> "NisDomain" [] t = 41 -> "NetworkInformationServers"
      [] t = 42 -> "NtpServers" [] t = 43 -> "VendorExtensions"
      [] t = 44 -> "NetBiosNameServers"
      [] t = 45 -> "NetBiosDatagramDistributionServer"
      [] t = 46 -> "NetBiosNodeType" [] t = 47 -> "NetBiosScope"
      [] t = 48 -> "XFontServer" [] t = 49 -> "XDisplayManager"
      [] t = 50 -> "RequestedIpAddress" [] t = 51 -> "IpAddressLeaseTime"
      [] t = 52 -> "OptionOverload" [] t = 53 -> "MessageType"
      [] t = 54 -> "ServerIdentifier" [] t = 55 -> "ParamRequestList"
      [] t = 56 -> "Message" [] t = 57 -> "MaxMessageSize"
      [] OTHER -> "Unknown"

Pad == <<"Pad", <<>>>>

End == <<"End", <<>>>>

\* The buffer that the option-82 parser hands to the nested parse.
sized_data(i) ==
    LET b == sized_buffer(Tail(i)) IN IF b.st = "Done" THEN b.o ELSE <<>>

\* relay_agent_information_option_rfc3046: tag 82, sized_buffer, the nested
\* parse of the buffer, whose vec is sub.  The nested parse has no Err
\* return, so map_res! never fails on it.
relay_agent_information_option_rfc3046(i, sub) ==
    LET tg == tag(i, 82)
        b == sized_buffer(tg.rest)
    IN  value(tg, b, <<"RelayAgentInformation", sub>>)

\* Every parser of the main alternation but the option-82 one.  As in
\* option_82_parser the alternation is a dispatch on the first byte.
dhcp_option_flat(i) ==
    IF Len(i) < 1 THEN Fail("Incomplete", i)
    ELSE LET t == i[1]
             v == Variant(t)
         IN  CASE t = 0 -> Done(Tail(i), Pad)
               [] t = 255 -> Done(Tail(i), End)
               [] t \in SingleIpTags -> single_ip(i, t, v)
               [] t = 2 -> scalar_i32(i, t, v)
               [] t \in ManyIpsTags -> many_ips(i, t, v)
               [] t \in StringTags -> length_specific_string(i, t, v)
               [] t \in BoolTags -> bool(i, t, v)
               [] t \in U8Tags -> scalar_u8(i, t, v)
               [] t \in U16Tags -> scalar_u16(i, t, v)
               [] t \in U32Tags -> scalar_u32(i, t, v)
               [] t = 25 -> u16_list(i, t, v)
               [] t = 33 -> ip_pairs(i, t, v)
               [] t \in EnumTags -> from_primitive(i, t, v)
               [] t \in ByteListTags -> byte_list(i, t, v)
               [] OTHER -> Fail("Error", i)

\* The main parser: the alternation of all of them.
dhcp_option(i) ==
    IF Len(i) >= 1 /\ i[1] = 82
    THEN relay_agent_information_option_rfc3046(i, parse82(sized_data(i)).vec)
    ELSE dhcp_option_flat(i)

IsSentinel(b) == b = 0 \/ b = 255

\* option_length computed in the width of the length byte (u8): 2 + 254
\* wraps to 0.
option_length_u8(unparsed) == (2 + At(unparsed, 1)) % 256

\* parse.rs line 41: 2 + (unparsed[1] as usize), in usize.
option_length(unparsed) == 2 + At(unparsed, 1)

\* start_of_next_option without the two header bytes.
start_of_next_option_no_header(unparsed) == At(unparsed, 1)

\* parse.rs line 72.
start_of_next_option(unparsed) == 2 + At(unparsed, 1)

\* sanity without its arm for a single remaining byte (lines 24-31): the
\* length byte is read whatever the length of unparsed.
sanity_no_single_byte_arm(unparsed) ==
    LET n == Len(unparsed)
    IN  IF n = 0 THEN [stop |-> TRUE, idx |-> {}]
        ELSE IF ~IsSentinel(unparsed[1])
        THEN [stop |-> option_length(unparsed) > n, idx |-> {0, 1}]
        ELSE [stop |-> FALSE, idx |-> {0}]

\* sanity asking for two bytes whatever the tag: a last single byte stops
\* the loop.
sanity_two_bytes_min(unparsed) ==
    LET n == Len(unparsed)
    IN  IF n <= 1 THEN [stop |-> TRUE, idx |-> {}]
        ELSE IF ~IsSentinel(unparsed[1])
        THEN [stop |-> option_length(unparsed) > n, idx |-> {0, 1}]
        ELSE [stop |-> FALSE, idx |-> {0}]

\* sanity without the bounds check of lines 44-47.
sanity_no_bounds_check(unparsed) ==
    LET n == Len(unparsed)
    IN  IF n = 0 THEN [stop |-> TRUE, idx |-> {}]
        ELSE IF n = 1
        THEN [stop |-> ~IsSentinel(unparsed[1]), idx |-> {0}]
        ELSE [stop |-> FALSE, idx |-> {0}]

\* parse.rs lines 18-50: stop is TRUE when the pass sets remaining = None
\* and continues.
sanity(unparsed) ==
    LET n == Len(unparsed)
    IN  IF n = 0 THEN [stop |-> TRUE, idx |-> {}]
        ELSE IF n = 1
        THEN [stop |-> ~IsSentinel(unparsed[1]), idx |-> {0}]
        ELSE IF ~IsSentinel(unparsed[1])
        THEN [stop |-> option_length(unparsed) > n, idx |-> {0, 1}]
        ELSE [stop |-> FALSE, idx |-> {0}]

\* after_option without the End test of line 55: the loop ends only when
\* nothing is left.
after_option_no_end_check(unparsed, vec, r) ==
    LET n == Len(unparsed)
    IN  IF r.st = "Done"
        THEN Pass(~(Len(r.rest) = 0), r.rest, Append(vec, r.o),
                  Examined(unparsed, r), n)
        ELSE IF n > 2
        THEN LET start == start_of_next_option(unparsed)
             IN  IF n > start
                 THEN Pass(TRUE, Drop(unparsed, start), vec,
                           Examined(unparsed, r) \cup {1}, n)
                 ELSE Pass(FALSE, <<>>, vec, Examined(unparsed, r) \cup {1}, n)
        ELSE Pass(FALSE, <<>>, vec, Examined(unparsed, r), n)

\* after_option without the recovery of lines 68-79: any record that does
\* not decode ends the loop.
after_option_no_recovery(unparsed, vec, r) ==
    LET n == Len(unparsed)
    IN  IF r.st = "Done"
        THEN Pass(~(r.o = End \/ Len(r.rest) = 0), r.rest, Append(vec, r.o),
                  Examined(unparsed, r), n)
        ELSE Pass(FALSE, <<>>, vec, Examined(unparsed, r), n)

\* parse.rs lines 53-80, given the result r of dhcp_option.
after_option(unparsed, vec, r) ==
    LET n == Len(unparsed)
    IN  IF r.st = "Done"
        THEN Pass(~(r.o = End \/ Len(r.rest) = 0), r.rest, Append(vec, r.o),
                  Examined(unparsed, r), n)
        ELSE IF n > 2
        THEN LET start == start_of_next_option(unparsed)
             IN  IF n > start
                 THEN Pass(TRUE, Drop(unparsed, start), vec,
                           Examined(unparsed, r) \cup {1}, n)
                 ELSE Pass(FALSE, <<>>, vec, Examined(unparsed, r) \cup {1}, n)
        ELSE Pass(FALSE, <<>>, vec, Examined(unparsed, r), n)

\* One pass of the while loop of parse.rs parse (lines 16-81).
iterate(unparsed, vec) ==
    LET s == sanity(unparsed)
        n == Len(unparsed)
    IN  IF s.stop \/ (\E k \in s.idx : k >= n)
        THEN Pass(FALSE, <<>>, vec, s.idx, n)
        ELSE LET p == after_option(unparsed, vec, dhcp_option(unparsed))
             IN  [p EXCEPT !.idx = @ \cup s.idx]

\* parse.rs parse run to its end: [vec, panic].
RECURSIVE loop(_, _)
loop(unparsed, vec) ==
    LET p == iterate(unparsed, vec)
    IN  IF p.panic THEN [vec |-> p.vec, panic |-> TRUE]
        ELSE IF ~p.some THEN [vec |-> p.vec, panic |-> FALSE]
        ELSE loop(p.remaining, p.vec)

parse(bytes0) ==
    IF Len(bytes0) > 0 THEN loop(bytes0, <<>>)
    ELSE [vec |-> <<>>, panic |-> FALSE]

\* ------------------------------------------------------------------------
\* The inputs
\* ------------------------------------------------------------------------
Seqs(A, n) == UNION {[1..k -> A] : k \in 0..n}

\* Pad, known tags of several shapes (1 SubnetMask, 2 TimeOffset, 3 Router,
\* 12 HostName, 19 IPForwarding), option 82, an unknown tag (254), End; the
\* same bytes serve as length and value bytes.
TopAlphabet == {0, 1, 2, 3, 12, 19, 82, 254, 255}

\* Sub-option tags 1, 2 (blobs), 6 (string), 10 (u8), unknown ones (0, 254),
\* and the same bytes as lengths and values.
SubAlphabet == {0, 1, 2, 6, 10, 254}

TopBuffers == Seqs(TopAlphabet, MaxLen)

\* An option-82 record around every payload, alone or followed by a Pad.
RelayBuffers ==
    {<<82, Len(p)>> \o p \o t : p \in Seqs(SubAlphabet, MaxSubLen),
                                t \in {<<>>, <<0>>}}

\* The buffers of the tests of parse.rs and option82.rs.
TestBuffers ==
    {<<0, 254, 4, 192, 168, 1, 1, 0, 255>>,
     <<0, 12, 10, 1, 255>>,
     <<0, 12, 254, 0, 0, 0, 0, 0, 255>>,
     <<0, 12, 255, 0, 0, 0, 0, 0, 255>>,
     <<0>>,
     <<0, 0, 0>>,
     <<50, 4, 192, 168, 1, 1>>,
     <<51, 4, 0, 0, 4, 176>>,
     <<3, 8, 127, 0, 0, 1, 192, 168, 1, 1>>,
     <<82, 16, 150, 6, 0, 1, 2, 3, 4, 5, 1, 6, 0, 1, 2, 3, 4, 5>>,
     <<82, 16, 1, 6, 0, 1, 2, 3, 4, 5, 2, 100, 0, 1, 2, 3, 4, 5>>,
     <<82, 16, 1, 6, 0, 1, 2, 3, 4, 5, 2, 254, 0, 1, 2, 3, 4, 5>>,
     <<82, 16, 1, 6, 0, 1, 2, 3, 4, 5, 2, 255, 0, 1, 2, 3, 4, 5>>,
     <<82, 6, 6, 4, 84, 101, 115, 116>>}

\* Records of every value shape, with every declared length around the
\* shape's own and value bytes up to MaxValueLen.
MaxValueLen == 4

\* Value bytes: 0 and 1 (also Pad and a length), 255 (also End, and no UTF-8).
ValueBytes == {0, 1, 255}

\* 1 SubnetMask (address), 2 TimeOffset (i32), 3 Router (addresses),
\* 12 HostName (string), 13 BootFileSize (u16), 19 IPForwarding (bool),
\* 23 DefaultIPTTL (u8), 33 StaticRoute (pairs), 46 NodeType (enum),
\* 51 IpAddressLeaseTime (u32), 53 MessageType (enum).
ShapeTags == {1, 2, 3, 12, 13, 19, 23, 33, 46, 51, 53}

\* 1 AgentCircuitID (blob), 4 DOCSISDeviceClass (i32), 5 LinkSelection
\* (address), 6 SubscriberID (string), 10 RelayAgentFlags (u8).
SubShapeTags == {1, 4, 5, 6, 10}

ShapeRecords(T) ==
    {<<t, l>> \o p : t \in T, l \in 0..(MaxValueLen + 1),
                     p \in Seqs(ValueBytes, MaxValueLen)}

SubShapeBuffers ==
    {<<82, Len(q)>> \o q \o x : q \in ShapeRecords(SubShapeTags),
                                x \in {<<>>, <<0>>}}

\* Every message type byte and its neighbours, alone or followed by a
\* sentinel.
MessageTypeBuffers ==
    {<<53, 1, b>> \o x : b \in 0..8, x \in {<<>>, <<0>>, <<255>>}}

\* The 4-byte scalars of tags 50 and 51 over bytes on both sides of every
\* half's middle.
ScalarBuffers ==
    {<<t, 4>> \o p : t \in {50, 51}, p \in [1..4 -> {0, 1, 127, 128, 255}]}

\* Address lists: up to MaxGroups 4-byte groups, every declared length up
\* to theirs and one more, alone or followed by a Pad.
MaxGroups == 4

Groups == {<<127, 0, 0, 1>>, <<255, 255, 255, 0>>}

RECURSIVE Flatten(_)
Flatten(g) == IF g = <<>> THEN <<>> ELSE Head(g) \o Flatten(Tail(g))

ListBuffers ==
    {<<t, l>> \o Flatten(g) \o x : t \in {3, 33}, l \in 0..(4 * MaxGroups + 1),
                                   g \in Seqs(Groups, MaxGroups),
                                   x \in {<<>>, <<0>>}}

\* Fixed-width records declared longer than their width, and the payloads
\* that end in a zero-length blob sub-option.
LongBuffers ==
    {<<51, 6, 0, 0, 4, 176, 0, 0>>,
     <<51, 6, 0, 0, 4, 176, 0, 0, 255>>,
     <<50, 6, 192, 168, 1, 1, 0, 0, 255>>,
     <<82, 8, 4, 6, 0, 0, 4, 176, 0, 0>>,
     <<82, 8, 5, 6, 192, 168, 1, 1, 0, 0, 0>>,
     <<82, 2, 1, 0>>,
     <<82, 10, 1, 6, 0, 1, 2, 3, 4, 5, 2, 0>>}

\* Strings over "A" (65) and the two bytes of U+00E9 (195, 169), which are
\* UTF-8 in that order only: as HostName followed by End, and as SubscriberID.
StringBuffers ==
    {<<12, Len(u)>> \o u \o <<255>> : u \in Seqs({65, 169, 195}, 3)}
    \cup {<<82, 2 + Len(u), 6, Len(u)>> \o u : u \in Seqs({65, 169, 195}, 3)}

ShapeBuffers ==
    ShapeRecords(ShapeTags) \cup SubShapeBuffers \cup MessageTypeBuffers
    \cup ScalarBuffers \cup ListBuffers \cup LongBuffers \cup StringBuffers
    \cup TestBuffers

\* ------------------------------------------------------------------------
\* The decode of one buffer as a state machine
\* ------------------------------------------------------------------------
VARIABLES
    bytes,        \* the buffer given to parse
    pc,           \* "start", "loop" (remaining is Some), "option82" (inside
                  \* the nested parse), "done" (parse has returned)
    remaining,    \* the slice the top-level loop has yet to decode
    vec,          \* the options pushed so far
    data,         \* the sub-buffer given to the nested parse
    some82,       \* the nested loop's remaining is Some
    remaining82,  \* the slice the nested loop has yet to decode
    vec82,        \* the sub-options pushed so far
    result,       \* "pending", "Ok" or "panic"
    reads,        \* indices into bytes the last pass read
    limit         \* end, as an index into bytes, of the slice it decoded

vars == <<bytes, pc, remaining, vec, data, some82, remaining82, vec82,
          result, reads, limit>>

\* Index into bytes of the first byte of the top-level unparsed slice.
pos == Len(bytes) - Len(remaining)

\* Index into bytes of the first byte of the nested unparsed slice.
pos82 == pos + 2 + Len(data) - Len(remaining82)

Shift(idx, by) == {k + by : k \in idx}

Buffers == TopBuffers \cup RelayBuffers \cup TestBuffers

\* No buffer has been handed to parse yet.
Init ==
    /\ bytes = <<>>
    /\ pc = "start"
    /\ remaining = <<>>
    /\ vec = <<>>
    /\ data = <<>>
    /\ some82 = FALSE
    /\ remaining82 = <<>>
    /\ vec82 = <<>>
    /\ result = "pending"
    /\ reads = {}
    /\ limit = 0

\* parse is called on a buffer of B (parse.rs lines 12-15 and 82-83): an
\* empty buffer returns at once.
Begin(B) ==
    /\ pc = "start"
    /\ \E b \in B :
          /\ bytes' = b
          /\ IF Len(b) > 0
             THEN pc' = "loop" /\ remaining' = b /\ result' = result
             ELSE pc' = "done" /\ remaining' = remaining /\ result' = "Ok"
    /\ UNCHANGED <<vec, data, some82, remaining82, vec82, reads, limit>>

\* The pass p of the top-level loop takes effect.
Land(p) ==
    /\ vec' = p.vec
    /\ reads' = Shift(p.idx, pos)
    /\ limit' = Len(bytes)
    /\ IF p.panic
       THEN pc' = "done" /\ result' = "panic" /\ remaining' = remaining
       ELSE IF p.some
       THEN pc' = "loop" /\ result' = result /\ remaining' = p.remaining
       ELSE pc' = "done" /\ result' = "Ok" /\ remaining' = remaining

\* The next record is an option-82 record that passed the sanity checks
\* and whose sized_buffer is there: dhcp_option has called the nested parse.
EntersOption82 ==
    /\ Len(remaining) >= 1
    /\ remaining[1] = 82
    /\ ~sanity(remaining).stop
    /\ sized_buffer(Tail(remaining)).st = "Done"

\* One pass of the top-level loop that does not enter the nested parse.
Iterate ==
    /\ pc = "loop"
    /\ ~EntersOption82
    /\ Land(iterate(remaining, vec))
    /\ UNCHANGED <<bytes, data, some82, remaining82, vec82>>

\* option82.rs lines 162-164: the nested parse starts on the sized buffer.
EnterOption82 ==
    /\ pc = "loop"
    /\ EntersOption82
    /\ LET b == sized_buffer(Tail(remaining))
       IN  /\ data' = b.o
           /\ remaining82' = b.o
           /\ some82' = (Len(b.o) > 0)
    /\ vec82' = <<>>
    /\ pc' = "option82"
    /\ reads' = Shift(sanity(remaining).idx \cup {0, 1}, pos)
    /\ limit' = Len(bytes)
    /\ UNCHANGED <<bytes, remaining, vec, result>>

\* One pass of the nested loop.
Iterate82 ==
    /\ pc = "option82"
    /\ some82
    /\ LET p == iterate82(remaining82, vec82)
       IN  /\ vec82' = p.vec
           /\ reads' = Shift(p.idx, pos82)
           /\ limit' = pos + 2 + Len(data)
           /\ IF p.panic
              THEN /\ pc' = "done" /\ result' = "panic"
                   /\ some82' = some82 /\ remaining82' = remaining82
              ELSE /\ pc' = pc /\ result' = result
                   /\ some82' = p.some
                   /\ remaining82' = IF p.some THEN p.remaining ELSE remaining82
    /\ UNCHANGED <<bytes, remaining, vec, data>>

\* The nested parse returns Ok(vec82): the option-82 parser is Done and the
\* top-level pass goes on at line 53.
LeaveOption82 ==
    /\ pc = "option82"
    /\ ~some82
    /\ LET r == relay_agent_information_option_rfc3046(remaining, vec82)
           p == after_option(remaining, vec, r)
       IN  Land([p EXCEPT !.idx = @ \cup sanity(remaining).idx])
    /\ UNCHANGED <<bytes, data, some82, remaining82, vec82>>

Next == Begin(Buffers) \/ Iterate \/ EnterOption82 \/ Iterate82 \/ LeaveOption82

Spec == Init /\ [][Next]_vars

\* The inputs of the termination check: fewer byte values, the same lengths.
FairTopAlphabet == {0, 1, 82, 254, 255}

FairSubAlphabet == {0, 1, 254}

FairBuffers ==
    Seqs(FairTopAlphabet, MaxLen)
    \cup {<<82, Len(p)>> \o p \o t : p \in Seqs(FairSubAlphabet, MaxSubLen),
                                     t \in {<<>>, <<0>>}}

FairNext ==
    Begin(FairBuffers) \/ Iterate \/ EnterOption82 \/ Iterate82 \/ LeaveOption82

\* The decode is one sequential computation: whenever a step is possible
\* one is taken.
FairSpec == Init /\ [][FairNext]_vars /\ WF_vars(FairNext)

\* The decode of the records of every shape.
ShapeNext ==
    Begin(ShapeBuffers) \/ Iterate \/ EnterOption82 \/ Iterate82 \/ LeaveOption82

ShapeSpec == Init /\ [][ShapeNext]_vars

TypeOK ==
    /\ pc \in {"start", "loop", "option82", "done"}
    /\ result \in {"pending", "Ok", "panic"}
    /\ some82 \in BOOLEAN
    /\ Len(remaining) <= Len(bytes)
    /\ Len(remaining82) <= Len(data)

\* The stepwise decode and the decode as one function agree.
StepwiseIsParse ==
    pc = "done" => vec = parse(bytes).vec /\ (result = "panic") = parse(bytes).panic

\* ------------------------------------------------------------------------
\* Properties
\* ------------------------------------------------------------------------
KnownTags ==
    {0, 255, 2, 25, 33, 82} \cup SingleIpTags \cup ManyIpsTags \cup StringTags
    \cup BoolTags \cup U8Tags \cup U16Tags \cup U32Tags \cup EnumTags
    \cup ByteListTags

\* The top-level loop is at a record with a length byte, whose tag is not a
\* sentinel.
AtRecord ==
    pc = "loop" /\ Len(remaining) >= 2 /\ ~IsSentinel(remaining[1])

\* pos + 2 + length of the record at the cursor, relative to the cursor.
RecordEnd == 2 + remaining[2]

\* C1: for every buffer the top-level parse returns Ok, with the options it
\* has pushed; no pass panics and there is no other way for parse to return.
C1_AlwaysOk ==
    /\ result # "panic"
    /\ pc = "done" => result = "Ok"

\* A buffer of arbitrary content has been decoded to the empty sequence.
C1_Witness ==
    pc = "done" /\ result = "Ok" /\ Len(bytes) = MaxLen /\ vec = <<>>

\* C2: at a record whose tag is not in the catalog and whose extent lies
\* within the buffer, the pass pushes nothing and the loop goes on at the
\* record's end (it returns if the record ends the buffer).
C2_UnknownTagSkipped ==
    [][(AtRecord /\ remaining[1] \notin KnownTags /\ RecordEnd <= Len(remaining))
       => /\ vec' = vec
          /\ result' # "panic"
          /\ IF RecordEnd < Len(remaining)
             THEN pc' = "loop" /\ remaining' = Drop(remaining, RecordEnd)
             ELSE pc' = "done"]_vars

\* The buffer of test_unknown_option has been decoded to [Pad, Pad, End].
C2_Witness ==
    /\ bytes = <<0, 254, 4, 192, 168, 1, 1, 0, 255>>
    /\ pc = "done"
    /\ vec = <<Pad, Pad, End>>

\* C3: at a record whose tag is not a sentinel and whose extent exceeds the
\* buffer, parse returns the options pushed before it: nothing is pushed for
\* the record or for what follows it.
C3_TruncatedRecordStops ==
    [][(AtRecord /\ RecordEnd > Len(remaining))
       => pc' = "done" /\ result' = "Ok" /\ vec' = vec]_vars

\* The buffer of test_invalid_option_length_buffer_overrun has been decoded
\* to [Pad]: the End after the truncated record was not reached.
C3_Witness ==
    /\ bytes = <<0, 12, 10, 1, 255>>
    /\ pc = "done"
    /\ vec = <<Pad>>
    /\ Len(remaining) = 4

\* The nested loop is at a sub-option record with a length byte.
AtSubRecord == pc = "option82" /\ some82 /\ Len(remaining82) >= 2

SubRecordEnd == 2 + remaining82[2]

SubKnownTags == {1, 2, 4, 5, 6, 7, 8, 9, 10, 11, 151, 152}

\* C4: a record whose length byte is 254 or 255, in a slice shorter than
\* 2 + length, ends the loop with nothing pushed, at top level and in the
\* nested loop: 2 + length does not wrap around.
C4_NoWrapAround ==
    [][/\ (AtRecord /\ remaining[2] \in {254, 255}
                    /\ Len(remaining) < 2 + remaining[2])
          => pc' = "done" /\ result' = "Ok" /\ vec' = vec
       /\ (AtSubRecord /\ remaining82[2] \in {254, 255}
                       /\ Len(remaining82) < 2 + remaining82[2])
          => pc' = "option82" /\ ~some82' /\ vec82' = vec82]_vars

\* The second buffer of test_invalid_option_length_datatype_overflow has
\* been decoded to [Pad].
C4_Witness ==
    /\ bytes = <<0, 12, 255, 0, 0, 0, 0, 0, 255>>
    /\ pc = "done"
    /\ vec = <<Pad>>

\* What may follow an End in a buffer.
Suffixes == Seqs(TopAlphabet, 2)

\* C5: End is pushed only as the last option, parse returns when it is
\* pushed, and the output is that of the buffer cut after that End followed
\* by any other bytes.
C5_EndIsLast ==
    /\ \A k \in 1..Len(vec) : vec[k][1] = "End" => k = Len(vec) /\ pc = "done"
    /\ (pc = "done" /\ Len(vec) > 0 /\ vec[Len(vec)][1] = "End")
       => \A x \in Suffixes : parse(Take(bytes, pos + 1) \o x).vec = vec

\* An End was decoded with bytes left after it.
C5_Witness ==
    /\ pc = "done"
    /\ Len(vec) > 1
    /\ vec[Len(vec)][1] = "End"
    /\ pos + 1 < Len(bytes)

\* C6: a pass of either loop that does not end the loop leaves a strictly
\* shorter slice to decode, and every decode comes to its end.
C6_Terminates ==
    /\ [][/\ (pc = "loop" /\ pc' = "loop") => Len(remaining') < Len(remaining)
          /\ (pc = "option82" /\ pc' = "loop") => Len(remaining') < Len(remaining)
          /\ (pc = "option82" /\ some82 /\ pc' = "option82" /\ some82')
             => Len(remaining82') < Len(remaining82)]_vars
    /\ <>(pc = "done")

\* Both loops have made more than one pass in one decode.
C6_Witness ==
    /\ pc = "done"
    /\ Len(vec) >= 2
    /\ vec[1][1] = "RelayAgentInformation"
    /\ Len(vec[1][2]) >= 2

\* C7: every index a pass reads lies inside the slice being decoded: the
\* buffer at top level, the option-82 sub-buffer in the nested loop.
C7_ReadsInBounds ==
    /\ limit <= Len(bytes)
    /\ \A k \in reads : 0 <= k /\ k < limit

\* A nested pass has read the last byte of a sub-buffer that is followed by
\* other bytes of the buffer.
C7_Witness ==
    /\ pc = "option82"
    /\ limit < Len(bytes)
    /\ (limit - 1) \in reads

\* C8: a Pad or End tag is pushed by a pass that consumes that one byte,
\* also when it is the last byte; a buffer of n >= 1 zero bytes yields n Pads.
C8_Sentinels ==
    [][/\ (pc = "loop" /\ Len(remaining) >= 1 /\ IsSentinel(remaining[1]))
          => /\ vec' = Append(vec, IF remaining[1] = 0 THEN Pad ELSE End)
             /\ IF remaining[1] = 0 /\ Len(remaining) > 1
                THEN pc' = "loop" /\ remaining' = Tail(remaining)
                ELSE pc' = "done" /\ result' = "Ok"
       /\ (pc' = "done" /\ Len(bytes) >= 1 /\ \A k \in 1..Len(bytes) : bytes[k] = 0)
          => vec' = [k \in 1..Len(bytes) |-> Pad]]_vars

\* A buffer of MaxLen zero bytes has been decoded to as many Pads.
C8_Witness ==
    /\ pc = "done"
    /\ Len(bytes) = MaxLen
    /\ \A k \in 1..Len(bytes) : bytes[k] = 0
    /\ Len(vec) = MaxLen

\* C9: at a sub-option whose tag is not in the sub-option catalog and whose
\* extent lies within the sub-buffer, the nested pass pushes nothing and the
\* nested loop goes on at the record's end (it ends if the record ends the
\* sub-buffer).
C9_UnknownSubOptionSkipped ==
    [][(AtSubRecord /\ remaining82[1] \notin SubKnownTags
                    /\ SubRecordEnd <= Len(remaining82))
       => /\ vec82' = vec82
          /\ pc' = "option82"
          /\ IF SubRecordEnd < Len(remaining82)
             THEN some82' /\ remaining82' = Drop(remaining82, SubRecordEnd)
             ELSE ~some82']_vars

\* The nested parse of test_unknown_option is over: one AgentCircuitID, and
\* the record is the whole input.
C9_Witness ==
    /\ bytes = <<82, 16, 150, 6, 0, 1, 2, 3, 4, 5, 1, 6, 0, 1, 2, 3, 4, 5>>
    /\ pc = "option82"
    /\ ~some82
    /\ vec82 = <<<<"AgentCircuitID", <<0, 1, 2, 3, 4, 5>>>>>>
    /\ Len(remaining) = 2 + Len(data)

\* C10: a sub-option whose extent exceeds the sub-buffer ends the nested
\* loop with nothing pushed; when the nested loop has ended the top-level
\* pass pushes RelayAgentInformation with the sub-options pushed so far and
\* goes on at the end of the option-82 record.
C10_TruncatedSubOption ==
    [][/\ (AtSubRecord /\ SubRecordEnd > Len(remaining82))
          => pc' = "option82" /\ ~some82' /\ vec82' = vec82
       /\ (pc = "option82" /\ ~some82)
          => /\ vec' = Append(vec, <<"RelayAgentInformation", vec82>>)
             /\ pc' = "loop" => remaining' = Drop(remaining, 2 + Len(data))
             /\ pc' = "done" => result' = "Ok" /\ Len(remaining) = 2 + Len(data)]_vars

\* The buffer of option82's test_invalid_option_length_buffer_overrun has
\* been decoded: one AgentCircuitID, no input left.
C10_Witness ==
    /\ bytes = <<82, 16, 1, 6, 0, 1, 2, 3, 4, 5, 2, 100, 0, 1, 2, 3, 4, 5>>
    /\ pc = "done"
    /\ vec = <<<<"RelayAgentInformation",
                <<<<"AgentCircuitID", <<0, 1, 2, 3, 4, 5>>>>>>>>>>
    /\ Len(bytes) = 2 + Len(data)

\* C11: a buffer that starts with the record [53, 1, b], b in 1..7, decodes
\* to MessageType of Discover, Offer, Request, Decline, Ack, Nak, Release
\* respectively as its first option.
C11_MessageTypes ==
    (pc = "done" /\ Len(bytes) >= 3 /\ bytes[1] = 53 /\ bytes[2] = 1
                 /\ bytes[3] \in 1..7)
    => /\ Len(vec) >= 1
       /\ vec[1] = <<"MessageType",
                     <<"Discover", "Offer", "Request", "Decline", "Ack", "Nak",
                       "Release">>[bytes[3]]>>

\* The last buffer of test_option_053_dhcp_message_type has been decoded.
C11_Witness ==
    /\ pc = "done"
    /\ bytes = <<53, 1, 7>>
    /\ vec = <<<<"MessageType", "Release">>>>

\* C12: the buffer [51, 4, b0, b1, b2, b3] decodes to exactly
\* [IpAddressLeaseTime(b0*2^24 + b1*2^16 + b2*2^8 + b3)], the number being
\* held as its halves <<b0*2^8 + b1, b2*2^8 + b3>>, and the buffer
\* [50, 4, b0, b1, b2, b3] to exactly [RequestedIpAddress(b0.b1.b2.b3)].
C12_BigEndianScalars ==
    (pc = "done" /\ Len(bytes) = 6 /\ bytes[1] \in {50, 51} /\ bytes[2] = 4)
    => vec = <<IF bytes[1] = 51
               THEN <<"IpAddressLeaseTime",
                      <<bytes[3] * 256 + bytes[4], bytes[5] * 256 + bytes[6]>>>>
               ELSE <<"RequestedIpAddress",
                      <<bytes[3], bytes[4], bytes[5], bytes[6]>>>>>>

\* A lease time whose four bytes differ, the first with its high bit set,
\* has been decoded.
C12_Witness ==
    /\ pc = "done"
    /\ bytes = <<51, 4, 128, 0, 255, 1>>
    /\ vec = <<<<"IpAddressLeaseTime", <<32768, 65281>>>>>>

\* C13: a pass that pushes the option of a record with a length byte leaves
\* the cursor at pos + 2 + length: the loop goes on at the record's end, or
\* returns with the record's end being the buffer's end; likewise in the
\* nested loop.
C13_CursorAtRecordEnd ==
    [][/\ ((AtRecord \/ (pc = "option82" /\ ~some82)) /\ Len(vec') = Len(vec) + 1)
          => /\ pc' = "loop" => remaining' = Drop(remaining, RecordEnd)
             /\ pc' = "done" => RecordEnd = Len(remaining)
       /\ (AtSubRecord /\ Len(vec82') = Len(vec82) + 1 /\ some82')
          => remaining82' = Drop(remaining82, SubRecordEnd)]_vars

\* The byte width of the value a fixed-width parser reads: be_u8, be_u16,
\* be_u32 or be_i32.
Width(t) ==
    CASE t \in U8Tags -> 1
      [] t \in U16Tags -> 2
      [] OTHER -> 4

FixedWidthTags == SingleIpTags \cup U8Tags \cup U16Tags \cup U32Tags \cup {2}

\* Sub-options 4 and 11 read be_i32, 5 be_u32, 10 be_u8.
SubWidth(t) == IF t = 10 THEN 1 ELSE 4

SubFixedWidthTags == {4, 5, 10, 11}

\* C14: at a fixed-width record whose length byte is not the width of its
\* type and whose extent lies within the slice, the pass pushes nothing and
\* the loop goes on at the record's end, at top level and in the nested
\* loop.
C14_WrongWidthFails ==
    [][/\ (AtRecord /\ remaining[1] \in FixedWidthTags
                    /\ remaining[2] # Width(remaining[1])
                    /\ RecordEnd <= Len(remaining))
          => /\ vec' = vec
             /\ IF RecordEnd < Len(remaining)
                THEN pc' = "loop" /\ remaining' = Drop(remaining, RecordEnd)
                ELSE pc' = "done"
       /\ (AtSubRecord /\ remaining82[1] \in SubFixedWidthTags
                       /\ remaining82[2] # SubWidth(remaining82[1])
                       /\ SubRecordEnd <= Len(remaining82))
          => /\ vec82' = vec82
             /\ IF SubRecordEnd < Len(remaining82)
                THEN some82' /\ remaining82' = Drop(remaining82, SubRecordEnd)
                ELSE ~some82']_vars

\* C15: at an IPForwarding record (tag 19) of length 1 with its value byte
\* in the slice, the pass pushes IPForwarding(true) when the value byte is 1
\* and pushes nothing when it is any other byte.
C15_BoolOnlyOne ==
    [][(AtRecord /\ remaining[1] = 19 /\ remaining[2] = 1 /\ Len(remaining) >= 3)
       => IF remaining[3] = 1
          THEN vec' = Append(vec, <<"IPForwarding", TRUE>>)
          ELSE vec' = vec]_vars

\* The k-th 4-byte group of the value of the record at the cursor.
Group(k) == SubSeq(remaining, 4 * k - 1, 4 * k + 2)

\* C16: at a Router record (tag 3) whose extent lies within the slice, the
\* pass pushes Router with the length/4 addresses of the value in wire order
\* when the length is a positive multiple of 4, and pushes nothing when the
\* length is 0 or no multiple of 4.
C16_RouterLength ==
    [][(AtRecord /\ remaining[1] = 3 /\ RecordEnd <= Len(remaining))
       => IF remaining[2] > 0 /\ remaining[2] % 4 = 0
          THEN vec' = Append(vec, <<"Router",
                                    [k \in 1..(remaining[2] \div 4) |-> Group(k)]>>)
          ELSE vec' = vec]_vars

\* C17: at a StaticRoute record (tag 33) whose extent lies within the slice,
\* the pass pushes StaticRoute with length/8 pairs, the k-th being the
\* groups 2k-1 and 2k of the value, when the length is a positive multiple
\* of 8, and pushes nothing for any other length.
C17_StaticRouteLength ==
    [][(AtRecord /\ remaining[1] = 33 /\ RecordEnd <= Len(remaining))
       => IF remaining[2] > 0 /\ remaining[2] % 8 = 0
          THEN vec' = Append(vec, <<"StaticRoute",
                                    [k \in 1..(remaining[2] \div 8) |->
                                        <<Group(2 * k - 1), Group(2 * k)>>]>>)
          ELSE vec' = vec]_vars

\* C18: at an enum record (tags 46, 52, 53) whose extent lies within the
\* slice and whose length is not 1 or whose value byte is not in the enum's
\* table, the pass pushes nothing and the loop goes on at the record's end.
C18_EnumFailures ==
    [][(AtRecord /\ remaining[1] \in EnumTags /\ RecordEnd <= Len(remaining)
                 /\ (remaining[2] # 1
                     \/ remaining[3] \notin from_u8_table(remaining[1])))
       => /\ vec' = vec
          /\ IF RecordEnd < Len(remaining)
             THEN pc' = "loop" /\ remaining' = Drop(remaining, RecordEnd)
             ELSE pc' = "done"]_vars

\* The declared value of the record at the cursor, top-level and nested.
Declared == SubSeq(remaining, 3, RecordEnd)

SubDeclared == SubSeq(remaining82, 3, SubRecordEnd)

\* C19: at a string record whose extent lies within the slice, a pass pushes
\* nothing or the string of exactly the declared bytes, and the loop goes on
\* at the record's end.  It pushes nothing when the bytes are not UTF-8 (as
\* with a byte of 245 or more), and pushes the string when they are (as with
\* bytes below 128); the nested loop does so on a slice of more than 2 bytes.
C19_Strings ==
    [][/\ (AtRecord /\ remaining[1] \in StringTags /\ RecordEnd <= Len(remaining))
          => /\ vec' = IF from_utf8(Declared)
                       THEN Append(vec, <<Variant(remaining[1]), Declared>>)
                       ELSE vec
             /\ (\A k \in 1..Len(Declared) : Declared[k] < 128) => vec' # vec
             /\ (\E k \in 1..Len(Declared) : Declared[k] >= 245) => vec' = vec
             /\ IF RecordEnd < Len(remaining)
                THEN pc' = "loop" /\ remaining' = Drop(remaining, RecordEnd)
                ELSE pc' = "done" /\ result' = "Ok"
       /\ (AtSubRecord /\ remaining82[1] = 6 /\ SubRecordEnd <= Len(remaining82))
          => /\ pc' = "option82"
             /\ vec82' = IF from_utf8(SubDeclared) /\ Len(remaining82) > 2
                         THEN Append(vec82, <<"SubscriberID", SubDeclared>>)
                         ELSE vec82
             /\ (\E k \in 1..Len(SubDeclared) : SubDeclared[k] >= 245)
                => vec82' = vec82
             /\ some82' => remaining82' = Drop(remaining82, SubRecordEnd)
             /\ (vec82' = vec82 /\ SubRecordEnd < Len(remaining82)) => some82']_vars

\* A HostName whose declared bytes are no UTF-8 (195 is not followed by a
\* continuation byte) was skipped and the End after it decoded.
C19_Witness ==
    /\ pc = "done"
    /\ bytes = <<12, 2, 195, 65, 255>>
    /\ vec = <<End>>

\* C20: the nested loop decodes a sub-option whenever 2 bytes or more are
\* left and its extent lies within the sub-buffer: at an AgentCircuitID or
\* AgentRemoteID record (tags 1 and 2, blobs) the pass pushes the blob of
\* the declared bytes, so that the payload [1,6,0,1,2,3,4,5,2,0] decodes to
\* AgentCircuitID([0,1,2,3,4,5]) and AgentRemoteID([]).
C20_NestedAsTopLevel ==
    [][/\ (AtSubRecord /\ remaining82[1] \in {1, 2}
                       /\ SubRecordEnd <= Len(remaining82))
          => vec82' = Append(vec82, <<IF remaining82[1] = 1 THEN "AgentCircuitID"
                                      ELSE "AgentRemoteID", SubDeclared>>)
       /\ (pc' = "done" /\ bytes' = <<82, 10, 1, 6, 0, 1, 2, 3, 4, 5, 2, 0>>)
          => vec' = <<<<"RelayAgentInformation",
                        <<<<"AgentCircuitID", <<0, 1, 2, 3, 4, 5>>>>,
                          <<"AgentRemoteID", <<>>>>>>>>>>]_vars

\* C21: at a tag-82 record whose extent lies within the slice the nested
\* parse is given exactly the declared bytes of the record; its passes read
\* only those bytes and push nothing at top level; and when it is over the
\* top-level pass pushes one RelayAgentInformation, with what the nested
\* parse pushed, and goes on at the record's end, whatever the payload.
C21_OneRelayAgentInformation ==
    [][/\ (AtRecord /\ remaining[1] = 82 /\ RecordEnd <= Len(remaining))
          => /\ pc' = "option82"
             /\ data' = Declared
             /\ remaining82' = Declared
             /\ vec82' = <<>>
             /\ vec' = vec /\ remaining' = remaining
       /\ (pc = "option82" /\ pc' = "option82")
          => /\ vec' = vec /\ remaining' = remaining /\ data' = data
             /\ \A k \in reads' : pos + 2 <= k /\ k < pos + RecordEnd
       /\ (pc = "option82" /\ pc' # "option82")
          => /\ data = Declared
             /\ vec' = Append(vec, <<"RelayAgentInformation", vec82>>)
             /\ result' # "panic"
             /\ IF RecordEnd < Len(remaining)
                THEN pc' = "loop" /\ remaining' = Drop(remaining, RecordEnd)
                ELSE pc' = "done"]_vars

\* A record whose payload is one truncated sub-option was decoded to an
\* empty RelayAgentInformation, and the Pad after the record to a Pad.
C21_Witness ==
    /\ pc = "done"
    /\ bytes = <<82, 3, 1, 6, 0, 0>>
    /\ vec = <<<<"RelayAgentInformation", <<>>>>, Pad>>
====
